---------------------------- MODULE Spec2Model ----------------------------
(***************************************************************************)
(* A model of four leaves of eradiate:                                     *)
(*   - the data-set resolver, eradiate/data/__init__.py                    *)
(*     (open, registered, find over the category registry _getters);       *)
(*   - the gridded BRDF adapter, eradiate/util/brdf_viewer.py              *)
(*     (DataArrayBRDFAdapter: construction, boundary completion on phi_o,  *)
(*     plotting_data);                                                     *)
(*   - the BRDF views of the same file (BRDFView: the resolution, wi,      *)
(*     wavelength and brdf properties; PolarView.evaluate);                *)
(*   - the buffer mesh, eradiate/scenes/shapes/_buffermesh.py              *)
(*     (BufferMeshShape: the validator of vertices and faces).             *)
(* Strings that the code takes apart (paths) are sequences of one-letter   *)
(* strings; an optional argument is << >> (None) or <<v>>.                 *)
(***************************************************************************)
EXTENDS Integers, Sequences, FiniteSets, TLC

VARIABLES
    _getters,   \* the category registry: category -> getter class
    fs,         \* the files that exist on disk (full paths)
    call,       \* the last resolver call: operation and arguments
    result,     \* what that call returned or raised
    invoked,    \* the getter operations that call invoked, in order
    loaded,     \* the files that call itself loaded with xr.open_dataset
    source,     \* the gridded array handed to DataArrayBRDFAdapter
    adapter,    \* the adapter the caller holds: None or Some([data, flag])
    ctor,       \* the outcome of the last construction
    copyCall,   \* the last boundary completion: None or Some([origin, target])
    copied,     \* the outcome of that boundary completion
    query,      \* the last plotting_data call: None or Some([wi, wavelength])
    answer,     \* what that call returned or raised
    view,       \* the fields of a BRDFView, or None when none was made
    viewCall,   \* the last operation on the view: its name and argument
    viewResult, \* what that operation returned or raised
    vertices,   \* the shape of the vertices handed to BufferMeshShape
    faces,      \* the shape of the faces handed to BufferMeshShape
    mesh        \* the outcome of that construction

resolverVars == <<_getters, fs, call, result, invoked, loaded>>
adapterVars == <<source, adapter, ctor, copyCall, copied, query, answer>>
viewVars == <<view, viewCall, viewResult>>
meshVars == <<vertices, faces, mesh>>
vars == <<_getters, fs, call, result, invoked, loaded, source, adapter, ctor, copyCall, copied,
          query, answer, view, viewCall, viewResult, vertices, faces, mesh>>

---------------------------------------------------------------------------
(* Values *)

None == << >>
Some(v) == <<v>>

\* A call returns a value or raises an exception of a type with a message.
Ok(v) == [kind |-> "ok", type |-> "", msg |-> << >>, value |-> v]
Raise(t, m) == [kind |-> "raise", type |-> t, msg |-> m, value |-> [tag |-> "nothing"]]

\* What a resolver operation yields: its outcome, the getter operations it
\* invoked on the way and the files it loaded itself.
Yield(r, c) == [res |-> r, calls |-> c, loads |-> << >>]
Loaded(r, fname) == [res |-> r, calls |-> << >>, loads |-> <<fname>>]

---------------------------------------------------------------------------
(* Bounds and input domains *)

\* How many files exist on disk at most.
MaxFiles == 2

\* File names the inputs are drawn from: "d.nc", "d.x.nc", ".nc", "d", "d.ncx".
FileNames ==
    { <<"d", ".", "n", "c">>,
      <<"d", ".", "x", ".", "n", "c">>,
      <<".", "n", "c">>,
      <<"d">>,
      <<"d", ".", "n", "c", "x">> }

\* Category strings the inputs are drawn from: the two registered ones and
\* the one the module's documentation lists but the registry does not hold.
Categories ==
    { "absorption_spectrum", "solar_irradiance_spectrum",
      "absorption_cross_section_spectrum" }

Ids == { "thuillier_2003", "test", "missing_id" }

\* The longest phi_o axis of a supplied array.
MaxPhiO == 2

\* Cell values of a supplied array are 1..MaxVal (a cell never written by
\* the completion stays 0).
MaxVal == 2

\* How many of the five axes a supplied array lacks at most.
MaxMissing == 1

\* Coordinate values the phi_o axis is drawn from (degrees).
PhiOValues == {0, 180, 360}

\* The resolutions assigned to azm_res and zen_res are 10, 20, ..,
\* 10 * MaxRes degrees.
MaxRes == 12

\* The arrays handed to BufferMeshShape have at most MaxNdim dimensions, each
\* of extent 0..MaxDim.
MaxNdim == 2
MaxDim == 3

---------------------------------------------------------------------------
(* The path resolver and the file loader *)

\* PathResolver.paths: the ordered root directories, "r" and "s.nc".
presolver_paths == << <<"r">>, <<"s", ".", "n", "c">> >>

join(base, path) == base \o <<"/">> \o path

\* PathResolver.resolve: the first existing match under the roots, in order.
resolve(path) ==
    LET hits == { i \in 1..Len(presolver_paths) : join(presolver_paths[i], path) \in fs }
    IN  IF hits = {}
        THEN Raise("FileNotFoundError", <<"cannot resolve", path>>)
        ELSE Ok(join(presolver_paths[CHOOSE i \in hits : \A j \in hits : i <= j], path))

\* str.rfind of a one-letter string: the last 0-based index, or -1.
rfind(p, ch) ==
    LET at == { i \in 1..Len(p) : p[i] = ch }
    IN  IF at = {} THEN -1 ELSE (CHOOSE i \in at : \A j \in at : j <= i) - 1

\* Mutant of splitext: the split is at the last dot of the last component
\* even when only dots precede it (".nc" gets the extension ".nc").
splitext_naive(p) ==
    LET sepIndex == rfind(p, "/")
        dotIndex == rfind(p, ".")
    IN  IF dotIndex > sepIndex
        THEN <<SubSeq(p, 1, dotIndex), SubSeq(p, dotIndex + 1, Len(p))>>
        ELSE <<p, << >> >>

\* os.path.splitext: the extension starts at the last dot of the last path
\* component, unless that component has only dots before it.
splitext(p) ==
    LET sepIndex == rfind(p, "/")
        dotIndex == rfind(p, ".")
        \* 0-based indices filenameIndex in sepIndex+1 .. dotIndex-1 holding no dot
        nonDot == { k \in (sepIndex + 1)..(dotIndex - 1) : p[k + 1] # "." }
    IN  IF dotIndex > sepIndex /\ nonDot # {}
        THEN <<SubSeq(p, 1, dotIndex), SubSeq(p, dotIndex + 1, Len(p))>>
        ELSE <<p, << >> >>

\* xarray.open_dataset on an existing file: the data set stored in it.
open_dataset(fname) == Ok([tag |-> "dataset", file |-> fname])

---------------------------------------------------------------------------
(* The getters *)

\* The PATHS table of each getter class: identifier -> relative file.
getter_PATHS(getter) ==
    IF getter = "_SolarIrradianceGetter"
    THEN [id \in {"thuillier_2003", "blackbody_sun"} |->
            IF id = "thuillier_2003" THEN <<"d", ".", "n", "c">>
                                     ELSE <<"d", ".", "x", ".", "n", "c">>]
    ELSE [id \in {"test"} |-> <<"d", ".", "n", "c", "x">>]

\* The identifiers in the order the getter lists them.
getter_ids(getter) ==
    IF getter = "_SolarIrradianceGetter"
    THEN <<"thuillier_2003", "blackbody_sun">>
    ELSE <<"test">>

getter_open(getter, id) ==
    IF id \notin DOMAIN getter_PATHS(getter)
    THEN Raise("ValueError", <<"unknown identifier", getter, id>>)
    ELSE LET r == resolve(getter_PATHS(getter)[id])
         IN  IF r.kind = "raise" THEN r ELSE open_dataset(r.value)

getter_registered(getter) == Ok(getter_ids(getter))

getter_find(getter) ==
    Ok([id \in DOMAIN getter_PATHS(getter) |->
            resolve(getter_PATHS(getter)[id]).kind = "ok"])

---------------------------------------------------------------------------
(* The resolver: eradiate.data.open, registered, find *)

\* Mutant of open_path: the error names the path as given, not as resolved.
open_path_given_name(path) ==
    LET r == resolve(path)
    IN  IF r.kind = "raise" THEN Yield(r, << >>)
        ELSE LET fname == r.value
                 ext == splitext(fname)[2]
             IN  IF ext = <<".", "n", "c">>
                 THEN Loaded(open_dataset(fname), fname)
                 ELSE Yield(Raise("ValueError", <<"cannot load resource", path>>), << >>)

\* open with a path: resolve it, then dispatch on the extension.
open_path(path) ==
    LET r == resolve(path)
    IN  IF r.kind = "raise" THEN Yield(r, << >>)
        ELSE LET fname == r.value
                 ext == splitext(fname)[2]
             IN  IF ext = <<".", "n", "c">>
                 THEN Loaded(open_dataset(fname), fname)
                 ELSE Yield(Raise("ValueError", <<"cannot load resource", fname>>), << >>)

\* Mutant of open: the getter's ValueError is caught and reported as an
\* unknown category.
open_rewrap(category, id, path) ==
    IF path = None
    THEN IF category = None \/ id = None
         THEN Yield(Raise("ValueError",
                          <<"if 'path' is None, 'category' and 'id' must not be None">>),
                    << >>)
         ELSE IF category[1] \notin DOMAIN _getters
         THEN Yield(Raise("ValueError", <<"invalid data category", category[1]>>), << >>)
         ELSE LET getter == _getters[category[1]]
                  got == getter_open(getter, id[1])
              IN  Yield(IF got.kind = "raise" /\ got.type = "ValueError"
                        THEN Raise("ValueError", <<"invalid data category", category[1]>>)
                        ELSE got,
                        << [getter |-> getter, op |-> "open", id |-> id] >>)
    ELSE open_path(path[1])

\* Mutant of open: a supplied category is looked up in the registry before
\* the path is considered.
open_category_first(category, id, path) ==
    IF category # None /\ category[1] \notin DOMAIN _getters
    THEN Yield(Raise("ValueError", <<"invalid data category", category[1]>>), << >>)
    ELSE IF path = None
    THEN IF category = None \/ id = None
         THEN Yield(Raise("ValueError",
                          <<"if 'path' is None, 'category' and 'id' must not be None">>),
                    << >>)
         ELSE LET getter == _getters[category[1]]
              IN  Yield(getter_open(getter, id[1]),
                        << [getter |-> getter, op |-> "open", id |-> id] >>)
    ELSE open_path(path[1])

\* Mutant of open: without a path, only a missing category is rejected
\* before the registry lookup; a missing id reaches the getter.
open_id_unchecked(category, id, path) ==
    IF path = None
    THEN IF category = None
         THEN Yield(Raise("ValueError",
                          <<"if 'path' is None, 'category' and 'id' must not be None">>),
                    << >>)
         ELSE IF category[1] \notin DOMAIN _getters
         THEN Yield(Raise("ValueError", <<"invalid data category", category[1]>>), << >>)
         ELSE LET getter == _getters[category[1]]
              IN  Yield(IF id = None
                        THEN Raise("ValueError", <<"unknown identifier", getter, "None">>)
                        ELSE getter_open(getter, id[1]),
                        << [getter |-> getter, op |-> "open", id |-> id] >>)
    ELSE open_path(path[1])

open(category, id, path) ==
    IF path = None
    THEN IF category = None \/ id = None
         THEN Yield(Raise("ValueError",
                          <<"if 'path' is None, 'category' and 'id' must not be None">>),
                    << >>)
         ELSE IF category[1] \notin DOMAIN _getters
         THEN Yield(Raise("ValueError", <<"invalid data category", category[1]>>), << >>)
         ELSE LET getter == _getters[category[1]]
              IN  Yield(getter_open(getter, id[1]),
                        << [getter |-> getter, op |-> "open", id |-> id] >>)
    ELSE open_path(path[1])

registered(category) ==
    IF category \notin DOMAIN _getters
    THEN Yield(Raise("ValueError", <<"invalid data category", category>>), << >>)
    ELSE LET getter == _getters[category]
         IN  Yield(getter_registered(getter),
                   << [getter |-> getter, op |-> "registered", id |-> None] >>)

\* Mutant of find: an unknown category yields an empty report.
find_silent(category) ==
    IF category \notin DOMAIN _getters
    THEN Yield(Ok(<< >>), << >>)
    ELSE LET getter == _getters[category]
         IN  Yield(getter_find(getter),
                   << [getter |-> getter, op |-> "find", id |-> None] >>)

\* Mutant of find: the report is asked of the solar irradiance getter
\* whatever the category.
find_wrong_getter(category) ==
    IF category \notin DOMAIN _getters
    THEN Yield(Raise("ValueError", <<"invalid data category", category>>), << >>)
    ELSE LET getter == _getters[category]
         IN  Yield(getter_find(_getters["solar_irradiance_spectrum"]),
                   << [getter |-> getter, op |-> "find", id |-> None] >>)

find(category) ==
    IF category \notin DOMAIN _getters
    THEN Yield(Raise("ValueError", <<"invalid data category", category>>), << >>)
    ELSE LET getter == _getters[category]
         IN  Yield(getter_find(getter),
                   << [getter |-> getter, op |-> "find", id |-> None] >>)

---------------------------------------------------------------------------
(* Labelled arrays (xarray.DataArray)                                      *)
(* An array is [dims, coords, values]: the axis names in storage order,    *)
(* each axis's coordinate sequence, and the value of each cell, a cell     *)
(* being addressed by its 1-based position on every named axis.           *)

Range(seq) == { seq[i] : i \in DOMAIN seq }

\* Python's "v in coords": v is one of the coordinate values.
Contains(seq, v) == \E i \in DOMAIN seq : seq[i] = v

\* The position of coordinate value v on an axis (.sel by label).
IndexOf(seq, v) == CHOOSE i \in DOMAIN seq : seq[i] = v

MaxLen(coords) ==
    LET lens == { Len(coords[d]) : d \in DOMAIN coords }
    IN  IF lens = {} THEN 0 ELSE CHOOSE m \in lens : \A l \in lens : l <= m

\* The cells of an array with these axes and coordinates.
IndexSpace(coords) ==
    { ix \in [DOMAIN coords -> 1..MaxLen(coords)] :
        \A d \in DOMAIN coords : ix[d] <= Len(coords[d]) }

DataArray(values, coords, dims) == [dims |-> dims, coords |-> coords, values |-> values]

\* numpy.zeros over the shape the coordinates give.
zeros(coords) == [ix \in IndexSpace(coords) |-> 0]

---------------------------------------------------------------------------
(* DataArrayBRDFAdapter *)

FLAG_GRIDDED_ADAPTER == 1
FLAG_SAMPLED_ADAPTER == 2

\* The axes the adapter requires, in the order _check_data tests them and in
\* the order _copy_phi_o_values lists its positional indexers.
required_dims == <<"theta_i", "phi_i", "theta_o", "phi_o", "wavelength">>

\* Mutant of _check_data: the k-th axis of the array must be the k-th
\* required axis.
_check_data_positional(value) ==
    LET absent == { k \in DOMAIN required_dims :
                      k \notin DOMAIN value.dims \/ value.dims[k] # required_dims[k] }
    IN  IF absent = {}
        THEN Ok(value)
        ELSE LET first == CHOOSE k \in absent : \A j \in absent : k <= j
             IN  Raise("ValueError",
                       <<"Required data dimension", required_dims[first], "not present in data!">>)

\* The validator of the data attribute: the first required axis, in order,
\* that the array lacks is reported.
_check_data(value) ==
    LET absent == { k \in DOMAIN required_dims : required_dims[k] \notin Range(value.dims) }
    IN  IF absent = {}
        THEN Ok(value)
        ELSE LET first == CHOOSE k \in absent : \A j \in absent : k <= j
             IN  Raise("ValueError",
                       <<"Required data dimension", required_dims[first], "not present in data!">>)

NotPhiO(dim) == dim # "phi_o"

\* Mutant of _copy_phi_o_values: the two value arguments of xr.where are
\* exchanged.
_copy_phi_o_values_swapped(data, origin, target) ==
    LET coords == [dim \in DOMAIN data.coords |->
                     IF dim = "phi_o" THEN Append(data.coords[dim], target)
                                      ELSE data.coords[dim]]
        empty == zeros(coords)
        keyLen(k) == Len(data.coords[required_dims[k]])
        inKey(ix) == \A k \in DOMAIN data.dims : ix[data.dims[k]] <= keyLen(k)
        data_new == [ix \in DOMAIN empty |->
                       IF inKey(ix) THEN data.values[ix] ELSE empty[ix]]
        where == [ix \in DOMAIN empty |->
                    IF coords["phi_o"][ix["phi_o"]] = target
                    THEN data_new[ix]
                    ELSE data.values[[ix EXCEPT !["phi_o"] =
                                            IndexOf(data.coords["phi_o"], origin)]]]
    IN  IF \E k \in DOMAIN data.dims : keyLen(k) > Len(data.coords[data.dims[k]])
        THEN Raise("IndexError", <<"index out of bounds for axis">>)
        ELSE IF ~Contains(data.coords["phi_o"], origin)
        THEN Raise("KeyError", <<origin>>)
        ELSE Ok(DataArray(where, coords, <<"phi_o">> \o SelectSeq(data.dims, NotPhiO)))

\* _copy_phi_o_values: a new array with target appended to phi_o, the cells
\* of data copied by position, and the cells at phi_o = target set to the
\* cells at phi_o = origin.
\*   lines 122-128: the new coordinates and the zero-filled array, in the
\*     axis order of data;
\*   lines 130-142: the k-th of the five positional indexers is
\*     arange(len(coords[required_dims[k]])) and indexes the k-th axis in
\*     storage order: it raises IndexError when it is longer than that axis;
\*   lines 143-144: xr.where broadcasts by name, its result has the axes in
\*     the order its arguments first name them (phi_o first), and
\*     data.sel(phi_o=origin) raises KeyError when origin is no coordinate.
_copy_phi_o_values(data, origin, target) ==
    LET coords == [dim \in DOMAIN data.coords |->
                     IF dim = "phi_o" THEN Append(data.coords[dim], target)
                                      ELSE data.coords[dim]]
        empty == zeros(coords)
        keyLen(k) == Len(data.coords[required_dims[k]])
        inKey(ix) == \A k \in DOMAIN data.dims : ix[data.dims[k]] <= keyLen(k)
        data_new == [ix \in DOMAIN empty |->
                       IF inKey(ix) THEN data.values[ix] ELSE empty[ix]]
        where == [ix \in DOMAIN empty |->
                    IF coords["phi_o"][ix["phi_o"]] = target
                    THEN data.values[[ix EXCEPT !["phi_o"] =
                                            IndexOf(data.coords["phi_o"], origin)]]
                    ELSE data_new[ix]]
    IN  IF \E k \in DOMAIN data.dims : keyLen(k) > Len(data.coords[data.dims[k]])
        THEN Raise("IndexError", <<"index out of bounds for axis">>)
        ELSE IF ~Contains(data.coords["phi_o"], origin)
        THEN Raise("KeyError", <<origin>>)
        ELSE Ok(DataArray(where, coords, <<"phi_o">> \o SelectSeq(data.dims, NotPhiO)))

\* What lines 109 and 111 call: the attribute copy_phi_o_values of the
\* adapter, which the class does not define (the method is named
\* _copy_phi_o_values), so the attribute lookup raises.
copy_phi_o_values(data, origin, target) ==
    Raise("AttributeError",
          <<"'DataArrayBRDFAdapter' object has no attribute", "copy_phi_o_values">>)

\* Mutant of __attrs_post_init__: an array that holds both boundaries is
\* completed all the same, 360 copied from 0.
__attrs_post_init___completing(data) ==
    LET completed ==
            IF "phi_o" \notin DOMAIN data.coords
            THEN Raise("AttributeError", <<"'DataArray' object has no attribute", "phi_o">>)
            ELSE IF ~Contains(data.coords["phi_o"], 0)
            THEN copy_phi_o_values(data, 360, 0)
            ELSE IF ~Contains(data.coords["phi_o"], 360)
            THEN copy_phi_o_values(data, 0, 360)
            ELSE LET again == _copy_phi_o_values(data, 0, 360)
                 IN  IF again.kind = "ok" THEN again
                     ELSE Ok(DataArray(zeros(data.coords), data.coords, data.dims))
    IN  IF completed.kind = "raise"
        THEN completed
        ELSE Ok([data |-> completed.value, flag |-> FLAG_GRIDDED_ADAPTER])

__attrs_post_init__(data) ==
    LET phi_o == data.coords["phi_o"]
        completed ==
            IF "phi_o" \notin DOMAIN data.coords
            THEN Raise("AttributeError", <<"'DataArray' object has no attribute", "phi_o">>)
            ELSE IF ~Contains(phi_o, 0)
            THEN copy_phi_o_values(data, 360, 0)
            ELSE IF ~Contains(phi_o, 360)
            THEN copy_phi_o_values(data, 0, 360)
            ELSE IF ~Contains(phi_o, 0) /\ ~Contains(phi_o, 360)
            THEN Raise("ValueError", <<"Data contains data for neither 0 nor 360!">>)
            ELSE Ok(data)
    IN  IF completed.kind = "raise"
        THEN completed
        ELSE Ok([data |-> completed.value, flag |-> FLAG_GRIDDED_ADAPTER])

\* Mutant of DataArrayBRDFAdapter: __attrs_post_init__ runs before the
\* validator of the data attribute.
DataArrayBRDFAdapter_post_init_first(value) ==
    LET made == __attrs_post_init__(value)
        checked == _check_data(value)
    IN  IF made.kind = "raise" THEN made
        ELSE IF checked.kind = "raise" THEN checked
        ELSE made

\* The attrs-generated constructor: the attribute is stored, its validator
\* runs, then __attrs_post_init__.
DataArrayBRDFAdapter(value) ==
    LET checked == _check_data(value)
    IN  IF checked.kind = "raise" THEN checked ELSE __attrs_post_init__(value)

\* Mutant of sel_data: the slice is laid out by axis name, theta_o along the
\* rows and phi_o along the columns, whatever the storage order.
sel_data_by_name(data, theta_i, phi_i, wavelength) ==
    LET label == [dim \in {"theta_i", "phi_i", "wavelength"} |->
                    CASE dim = "theta_i" -> theta_i
                      [] dim = "phi_i" -> phi_i
                      [] dim = "wavelength" -> wavelength]
        selected == <<"theta_i", "phi_i", "wavelength">>
        absent == { k \in DOMAIN selected :
                      ~Contains(data.coords[selected[k]], label[selected[k]]) }
        rest == <<"theta_o", "phi_o">>
        cell(a, b) ==
            data.values[[dim \in DOMAIN data.coords |->
                           IF dim = rest[1] THEN a
                           ELSE IF dim = rest[2] THEN b
                           ELSE IndexOf(data.coords[dim], label[dim])]]
    IN  IF absent # {}
        THEN Raise("KeyError", <<label[selected[CHOOSE k \in absent : \A j \in absent : k <= j]]>>)
        ELSE Ok([a \in 1..Len(data.coords[rest[1]]) |->
                   [b \in 1..Len(data.coords[rest[2]]) |-> cell(a, b)]])

\* DataArray.sel(theta_i=.., phi_i=.., wavelength=..).data: KeyError for a
\* label that is no coordinate of its axis, else the cells at the selected
\* labels as a two-dimensional array over the two remaining axes, in the
\* order the array stores them: entry [a][b] is the cell at position a of the
\* first remaining axis and position b of the second.
sel_data(data, theta_i, phi_i, wavelength) ==
    LET label == [dim \in {"theta_i", "phi_i", "wavelength"} |->
                    CASE dim = "theta_i" -> theta_i
                      [] dim = "phi_i" -> phi_i
                      [] dim = "wavelength" -> wavelength]
        selected == <<"theta_i", "phi_i", "wavelength">>
        absent == { k \in DOMAIN selected :
                      ~Contains(data.coords[selected[k]], label[selected[k]]) }
        rest == SelectSeq(data.dims, LAMBDA dim : dim \notin Range(selected))
        cell(a, b) ==
            data.values[[dim \in DOMAIN data.coords |->
                           IF dim = rest[1] THEN a
                           ELSE IF dim = rest[2] THEN b
                           ELSE IndexOf(data.coords[dim], label[dim])]]
    IN  IF absent # {}
        THEN Raise("KeyError", <<label[selected[CHOOSE k \in absent : \A j \in absent : k <= j]]>>)
        ELSE Ok([a \in 1..Len(data.coords[rest[1]]) |->
                   [b \in 1..Len(data.coords[rest[2]]) |-> cell(a, b)]])

NoExactMatch ==
    <<"Selected values don't align with data grid! Wavelength and incoming direction cannot be interpolated.">>

\* Mutant of plotting_data: each value is looked for among the coordinates of
\* all five axes.
plotting_data_any_axis(self, wi, wavelength) ==
    LET anywhere == UNION { Range(self.data.coords[dim]) : dim \in DOMAIN self.data.coords }
    IN  IF Len(wi) # 2
        THEN Raise("ValueError", <<"cannot unpack wi into (theta_i, phi_i)">>)
        ELSE LET theta_i == wi[1]
                 phi_i == wi[2]
             IN  IF \/ theta_i \notin anywhere
                    \/ phi_i \notin anywhere
                    \/ wavelength \notin anywhere
                 THEN Raise("ValueError", NoExactMatch)
                 ELSE LET picked == sel_data(self.data, theta_i, phi_i, wavelength)
                      IN  IF picked.kind = "raise" THEN picked
                          ELSE Ok([theta_o |-> self.data.coords["theta_o"],
                                   phi_o |-> self.data.coords["phi_o"],
                                   data |-> picked.value])

\* DataArrayBRDFAdapter.plotting_data, lines 148-170: wi is unpacked into
\* (theta_i, phi_i); each of theta_i, phi_i and wavelength is looked for among
\* the coordinates of its own axis; the result is the coordinates of theta_o,
\* those of phi_o and the selected slice.
plotting_data(self, wi, wavelength) ==
    IF Len(wi) # 2
    THEN Raise("ValueError", <<"cannot unpack wi into (theta_i, phi_i)">>)
    ELSE LET theta_i == wi[1]
             phi_i == wi[2]
         IN  IF \/ ~Contains(self.data.coords["theta_i"], theta_i)
                \/ ~Contains(self.data.coords["phi_i"], phi_i)
                \/ ~Contains(self.data.coords["wavelength"], wavelength)
             THEN Raise("ValueError", NoExactMatch)
             ELSE LET picked == sel_data(self.data, theta_i, phi_i, wavelength)
                  IN  IF picked.kind = "raise" THEN picked
                      ELSE Ok([theta_o |-> self.data.coords["theta_o"],
                               phi_o |-> self.data.coords["phi_o"],
                               data |-> picked.value])

---------------------------------------------------------------------------
(* The arrays handed to the adapter *)

\* Axis orders of the five-axis arrays: the documented one, one that swaps
\* two axes of equal length, one that swaps theta_o and phi_o.
AxisOrders ==
    { required_dims,
      <<"phi_i", "theta_i", "theta_o", "phi_o", "wavelength">>,
      <<"theta_i", "phi_i", "phi_o", "theta_o", "wavelength">> }

\* Axis lists that lack between 1 and MaxMissing of the required axes.
LackingDims ==
    { SelectSeq(required_dims, LAMBDA dim : dim \notin gone) :
        gone \in { g \in SUBSET Range(required_dims) :
                     Cardinality(g) >= 1 /\ Cardinality(g) <= MaxMissing } }

\* Duplicate-free phi_o coordinate sequences of 1..MaxPhiO values.
PhiOSeqs ==
    { seq \in UNION { [1..n -> PhiOValues] : n \in 1..MaxPhiO } :
        \A i, j \in DOMAIN seq : seq[i] = seq[j] => i = j }

AxisCoords(dim, phi_o) ==
    CASE dim = "theta_i" -> <<30>>
      [] dim = "phi_i" -> <<0>>
      [] dim = "theta_o" -> <<0, 45>>
      [] dim = "phi_o" -> phi_o
      [] dim = "wavelength" -> <<550>>

ArraysOver(dims, phi_o) ==
    LET coords == [dim \in Range(dims) |-> AxisCoords(dim, phi_o)]
    IN  { DataArray(values, coords, dims) :
            values \in [IndexSpace(coords) -> 1..MaxVal] }

SourceArrays ==
    UNION ( { ArraysOver(dims, phi_o) : dims \in AxisOrders, phi_o \in PhiOSeqs }
            \cup { ArraysOver(dims, <<0, 360>>) : dims \in LackingDims } )

NotRun == [kind |-> "none", type |-> "", msg |-> << >>, value |-> [tag |-> "nothing"]]

\* The queries plotting_data is asked: the coordinates of the supplied
\* arrays; on one axis, or on two, a value that is a coordinate of another
\* axis only; a direction that is no (theta_i, phi_i) pair.
Queries ==
    { [wi |-> <<30, 0>>, wavelength |-> 550],
      [wi |-> <<0, 0>>, wavelength |-> 550],
      [wi |-> <<30, 30>>, wavelength |-> 550],
      [wi |-> <<30, 0>>, wavelength |-> 30],
      [wi |-> <<0, 0>>, wavelength |-> 30],
      [wi |-> <<30, 0, 0>>, wavelength |-> 550] }

---------------------------------------------------------------------------
(* Angles and quotients                                                    *)
(* A quotient n/d is the pair <<n, d>> in lowest terms with d > 0; an      *)
(* angle in radians is the quotient it is of pi.                           *)

RECURSIVE gcd(_, _)
gcd(a, b) == IF b = 0 THEN a ELSE gcd(b, a % b)

abs(n) == IF n < 0 THEN -n ELSE n

\* n / d for d # 0.
Ratio(n, d) ==
    LET g == gcd(abs(n), abs(d))
        sign == IF d < 0 THEN -1 ELSE 1
    IN  <<sign * (n \div g), sign * (d \div g)>>

\* int(np.ceil(n / d)) for d > 0.
ceil(n, d) == -((-n) \div d)

\* np.deg2rad of a sequence of degrees.
deg2rad(degrees) == [k \in DOMAIN degrees |-> Ratio(degrees[k], 180)]

\* np.linspace(0, stop, num) for stop = <<n, d>> of pi: num evenly spaced
\* values from 0 to stop, both included; a negative num is refused.
linspace(stop, num) ==
    IF num < 0
    THEN Raise("ValueError", <<"Number of samples must be non-negative", num>>)
    ELSE Ok([k \in 1..num |->
               IF num = 1 THEN Ratio(0, 1)
               ELSE Ratio(stop[1] * (k - 1), stop[2] * (num - 1))])

\* np.transpose of a two-dimensional array.
transpose(m) ==
    IF Len(m) = 0 THEN << >>
    ELSE [b \in 1..Len(m[1]) |-> [a \in 1..Len(m) |-> m[a][b]]]

\* np.meshgrid(x, y): two arrays of shape (len(y), len(x)).
meshgrid(x, y) ==
    << [j \in 1..Len(y) |-> [i \in 1..Len(x) |-> x[i]]],
       [j \in 1..Len(y) |-> [i \in 1..Len(x) |-> y[j]]] >>

---------------------------------------------------------------------------
(* BRDFView and PolarView *)

Nothing == [tag |-> "nothing"]

\* The fields of a view after BRDFView(): _brdf and _z are not set.
BRDFView ==
    [_brdf |-> None,
     _wi |-> <<0, 0>>,
     _azm |-> linspace(<<2, 1>>, 101).value,
     _zen |-> linspace(<<1, 2>>, 101).value,
     _wavelength |-> 650,
     _z |-> None,
     r |-> None,
     th |-> None]

\* The setters and getters return Ok(the view after the call) or
\* Ok(the value read), or raise and leave the view as it was.

wavelength_setter(self, wavelength) == Ok([self EXCEPT !._wavelength = wavelength])

azm_steps(self) == Ok(Len(self._azm))

azm_steps_setter(self, steps) ==
    LET angles == linspace(<<2, 1>>, steps)
    IN  IF angles.kind = "raise" THEN angles ELSE Ok([self EXCEPT !._azm = angles.value])

azm_res(self) ==
    IF Len(self._azm) - 1 = 0
    THEN Raise("ZeroDivisionError", <<"division by zero">>)
    ELSE Ok(Ratio(360, Len(self._azm) - 1))

azm_res_setter(self, res) ==
    IF res = 0
    THEN Raise("ZeroDivisionError", <<"float division by zero">>)
    ELSE azm_steps_setter(self, ceil(360, res) + 1)

zen_steps(self) == Ok(Len(self._zen))

zen_steps_setter(self, steps) ==
    LET angles == linspace(<<1, 2>>, steps)
    IN  IF angles.kind = "raise" THEN angles ELSE Ok([self EXCEPT !._zen = angles.value])

zen_res(self) ==
    IF Len(self._zen) - 1 = 0
    THEN Raise("ZeroDivisionError", <<"division by zero">>)
    ELSE Ok(Ratio(360, Len(self._zen) - 1))

zen_res_setter(self, res) ==
    IF res = 0
    THEN Raise("ZeroDivisionError", <<"float division by zero">>)
    ELSE zen_steps_setter(self, ceil(90, res) + 1)

\* np.rad2deg(frame.direction_to_angles(v)) for a unit vector v along an
\* axis: the (theta, phi) pair in degrees.
direction_to_angles_deg(v) ==
    CASE v = <<0, 0, 1>> -> <<0, 0>>
      [] v = <<1, 0, 0>> -> <<90, 0>>
      [] v = <<0, 1, 0>> -> <<90, 90>>

\* The wi setter, lines 300-311, for vectors along an axis or zero.
wi_setter(self, wi) ==
    IF Len(wi) = 2
    THEN Ok([self EXCEPT !._wi = wi])
    ELSE IF Len(wi) = 3
    THEN LET norm2 == wi[1] * wi[1] + wi[2] * wi[2] + wi[3] * wi[3]
         IN  IF norm2 = 0
             THEN Raise("ValueError", <<"Incoming direction vector cannot have length 0!">>)
             ELSE Ok([self EXCEPT !._wi = direction_to_angles_deg(wi)])
    ELSE Ok(self)

\* Mutant of MitsubaBSDFPluginAdapter: __attrs_post_init__ sets no flag the
\* views know.
MitsubaBSDFPluginAdapter_unflagged(bsdf) ==
    IF bsdf.type # "BSDF"
    THEN Raise("TypeError", <<"This class must be instantiated with a Mitsuba BSDF plugin.">>)
    ELSE Ok([bsdf |-> bsdf, flag |-> 0])

\* MitsubaBSDFPluginAdapter(source): the validator accepts a kernel BSDF,
\* __attrs_post_init__ sets the sampled flag.
MitsubaBSDFPluginAdapter(bsdf) ==
    IF bsdf.type # "BSDF"
    THEN Raise("TypeError", <<"This class must be instantiated with a Mitsuba BSDF plugin.">>)
    ELSE Ok([bsdf |-> bsdf, flag |-> FLAG_SAMPLED_ADAPTER])

\* The brdf setter, lines 317-335. A source is [type, value]: a kernel BSDF,
\* a DataArray, a str or something else.
brdf_setter(self, src) ==
    IF src.type = "BSDF"
    THEN LET made == MitsubaBSDFPluginAdapter(src)
         IN  IF made.kind = "raise" THEN made ELSE Ok([self EXCEPT !._brdf = Some(made.value)])
    ELSE IF src.type = "DataArray"
    THEN LET made == DataArrayBRDFAdapter(src.value)
         IN  IF made.kind = "raise" THEN made ELSE Ok([self EXCEPT !._brdf = Some(made.value)])
    ELSE IF src.type = "str"
    THEN Raise("TypeError", <<"Loading BRDF data files is not supported yet.">>)
    ELSE Raise("TypeError", <<"Non supported BRDF source type:", src.type>>)

\* MitsubaBSDFPluginAdapter.evaluate, lines 45-69: the value the kernel
\* plugin gives for these directions and this wavelength.
adapter_evaluate(self, wo, wi, wavelength) ==
    [bsdf |-> self.bsdf, wo |-> wo, wi |-> wi, wavelength |-> wavelength]

\* Mutant of PolarView.evaluate: with a gridded adapter the view keeps the
\* zen and azm it was configured with.
PolarView_evaluate_keeping(self) ==
    IF self._brdf = None
    THEN Raise("AttributeError", <<"'PolarView' object has no attribute", "_brdf">>)
    ELSE LET brdf == self._brdf[1]
         IN  IF brdf.flag = FLAG_GRIDDED_ADAPTER
             THEN LET got == plotting_data(brdf, self._wi, self._wavelength)
                  IN  IF got.kind = "raise" THEN got
                      ELSE LET grid == meshgrid(self._zen, self._azm)
                           IN  Ok([self EXCEPT !._z = Some(transpose(got.value.data)),
                                               !.r = Some(grid[1]),
                                               !.th = Some(grid[2])])
             ELSE Raise("TypeError", <<"Unsupported adapter">>)

\* PolarView.evaluate, lines 380-399.
PolarView_evaluate(self) ==
    IF self._brdf = None
    THEN Raise("AttributeError", <<"'PolarView' object has no attribute", "_brdf">>)
    ELSE LET brdf == self._brdf[1]
         IN  IF brdf.flag = FLAG_GRIDDED_ADAPTER
             THEN LET got == plotting_data(brdf, self._wi, self._wavelength)
                  IN  IF got.kind = "raise" THEN got
                      ELSE LET zen == deg2rad(got.value.theta_o)
                               azm == deg2rad(got.value.phi_o)
                               grid == meshgrid(zen, azm)
                           IN  Ok([self EXCEPT !._zen = zen,
                                               !._azm = azm,
                                               !._z = Some(transpose(got.value.data)),
                                               !.r = Some(grid[1]),
                                               !.th = Some(grid[2])])
             ELSE IF brdf.flag = FLAG_SAMPLED_ADAPTER
             THEN LET grid == meshgrid(self._zen, self._azm)
                      r == grid[1]
                      th == grid[2]
                  IN  Ok([self EXCEPT
                            !.r = Some(r),
                            !.th = Some(th),
                            !._z = Some([i \in DOMAIN r |-> [j \in DOMAIN r[i] |->
                                      adapter_evaluate(brdf, <<r[i][j], th[i][j]>>,
                                                       self._wi, self._wavelength)]])])
             ELSE Raise("TypeError", <<"Unsupported adapter">>)

---------------------------------------------------------------------------
(* PrincipalPlaneView *)

\* np.squeeze(data[:, np.where(phis == phi)]) as it is assigned to a slice of
\* n cells of _z: the columns of the two-dimensional data at the positions
\* where phis equals phi, one value per row.
squeeze_columns(data, phis, phi, n) ==
    LET where == SelectSeq([k \in DOMAIN phis |-> k], LAMBDA k : phis[k] = phi)
        rows == Len(data)
        columns == IF rows = 0 THEN 0 ELSE Len(data[1])
    IN  IF \E i \in DOMAIN where : where[i] > columns
        THEN Raise("IndexError", <<"index is out of bounds for axis 1 with size", columns>>)
        ELSE IF Len(where) = 1 /\ rows = n
        THEN Ok([a \in 1..n |-> data[a][where[1]]])
        ELSE IF Len(where) = 1 /\ rows = 1
        THEN Ok([a \in 1..n |-> data[1][where[1]]])
        ELSE IF rows = 1 /\ Len(where) = n
        THEN Ok([a \in 1..n |-> data[1][where[a]]])
        ELSE Raise("ValueError", <<"could not broadcast input array into shape", <<n>>>>)

\* PrincipalPlaneView.evaluate, lines 440-471: what the call returns or
\* raises, and the view it leaves. _z is zeroed before the adapter is looked
\* at, and the gridded branch assigns zen and the halves of _z one by one,
\* so a call that raises can leave a changed view.
PrincipalPlaneView_evaluate(self) ==
    LET cleared == [self EXCEPT !._z = Some([k \in 1..(2 * Len(self._zen)) |-> 0])]
    IN  IF self._brdf = None
        THEN [out |-> Raise("AttributeError",
                            <<"'PrincipalPlaneView' object has no attribute", "_brdf">>),
              self |-> cleared]
        ELSE LET brdf == self._brdf[1]
             IN  IF brdf.flag = FLAG_GRIDDED_ADAPTER
                 THEN LET got == plotting_data(brdf, self._wi, self._wavelength)
                      IN  IF got.kind = "raise"
                          THEN [out |-> got, self |-> cleared]
                          ELSE IF ~Contains(got.value.phi_o, 180)
                          THEN [out |-> Raise("ValueError",
                                    <<"The principal plane view requires values at phi=180 degrees!">>),
                                self |-> cleared]
                          ELSE LET zen == deg2rad(got.value.theta_o)
                                   n == Len(zen)
                                   blank == [k \in 1..n |-> 0]
                                   phi_zero == squeeze_columns(got.value.data, got.value.phi_o, 0, n)
                                   phi_oneeighty == squeeze_columns(got.value.data, got.value.phi_o, 180, n)
                               IN  IF phi_zero.kind = "raise"
                                   THEN [out |-> phi_zero,
                                         self |-> [self EXCEPT !._zen = zen,
                                                               !._z = Some(blank \o blank)]]
                                   ELSE IF phi_oneeighty.kind = "raise"
                                   THEN [out |-> phi_oneeighty,
                                         self |-> [self EXCEPT !._zen = zen,
                                                               !._z = Some(blank \o phi_zero.value)]]
                                   ELSE [out |-> Ok(Nothing),
                                         self |-> [self EXCEPT
                                                     !._zen = zen,
                                                     !._z = Some(phi_oneeighty.value \o phi_zero.value)]]
                 ELSE IF brdf.flag = FLAG_SAMPLED_ADAPTER
                 THEN LET n == Len(self._zen)
                      IN  [out |-> Ok(Nothing),
                           self |-> [self EXCEPT !._z = Some([k \in 1..(2 * n) |->
                              IF k > n
                              THEN adapter_evaluate(brdf, <<self._zen[k - n], Ratio(0, 1)>>,
                                                    self._wi, self._wavelength)
                              ELSE adapter_evaluate(brdf, <<self._zen[n + 1 - k], Ratio(1, 1)>>,
                                                    self._wi, self._wavelength)])]]
                 ELSE [out |-> Ok(Nothing), self |-> cleared]

---------------------------------------------------------------------------
(* BufferMeshShape *)

\* Mutant of _vertex_face_validator: an array without rows passes.
_vertex_face_validator_rowless(name, shape) ==
    IF Len(shape) # 2 \/ shape[2] # 3
    THEN Raise("ValueError",
               <<"while validating", name, "must be an array of shape (n, 3), got", shape>>)
    ELSE Ok(shape)

\* _vertex_face_validator, lines 52-59, on the shape of the value of the
\* attribute of this name.
_vertex_face_validator(name, shape) ==
    IF Len(shape) # 2 \/ shape[1] = 0 \/ shape[2] # 3
    THEN Raise("ValueError",
               <<"while validating", name, "must be an array of shape (n, 3), got", shape>>)
    ELSE Ok(shape)

\* BufferMeshShape(vertices=.., faces=..) for vertices in units of length:
\* the validators run in the order the attributes are declared.
BufferMeshShape(v, f) ==
    LET checkedVertices == _vertex_face_validator("vertices", v)
        checkedFaces == _vertex_face_validator("faces", f)
    IN  IF checkedVertices.kind = "raise" THEN checkedVertices
        ELSE IF checkedFaces.kind = "raise" THEN checkedFaces
        ELSE Ok([vertices |-> v, faces |-> f])

---------------------------------------------------------------------------
(* The parts of the state a specification leaves alone *)

NoViewCall == [op |-> "none", arg |-> None]

\* No view has been made.
IdleView ==
    /\ view = None
    /\ viewCall = NoViewCall
    /\ viewResult = NotRun

IdleMesh ==
    /\ vertices = << >>
    /\ faces = << >>
    /\ mesh = NotRun

---------------------------------------------------------------------------
(* The resolver as a state machine *)

\* The module-level registry, lines 46-49.
getters_init ==
    [c \in {"absorption_spectrum", "solar_irradiance_spectrum"} |->
        IF c = "absorption_spectrum" THEN "_AbsorptionGetter"
                                     ELSE "_SolarIrradianceGetter"]

AllFiles == { join(presolver_paths[i], n) : i \in 1..Len(presolver_paths), n \in FileNames }

NoCall == [op |-> "none", category |-> None, id |-> None, path |-> None]

InitResolver ==
    /\ _getters = getters_init
    /\ fs \in { s \in SUBSET AllFiles : Cardinality(s) <= MaxFiles }
    /\ call = NoCall
    /\ result = Ok([tag |-> "nothing"])
    /\ invoked = << >>
    /\ loaded = << >>
    /\ source = DataArray(zeros(<< >>), << >>, << >>)
    /\ adapter = None
    /\ ctor = NotRun
    /\ copyCall = None
    /\ copied = NotRun
    /\ query = None
    /\ answer = NotRun
    /\ IdleView
    /\ IdleMesh

Open ==
    \E category \in {None} \cup { Some(c) : c \in Categories },
       id \in {None} \cup { Some(i) : i \in Ids },
       path \in {None} \cup { Some(p) : p \in FileNames } :
        LET y == open(category, id, path)
        IN  /\ call' = [op |-> "open", category |-> category, id |-> id, path |-> path]
            /\ result' = y.res
            /\ invoked' = y.calls
            /\ loaded' = y.loads
            /\ UNCHANGED <<_getters, fs, adapterVars, viewVars, meshVars>>

Registered ==
    \E category \in Categories :
        LET y == registered(category)
        IN  /\ call' = [op |-> "registered", category |-> Some(category),
                        id |-> None, path |-> None]
            /\ result' = y.res
            /\ invoked' = y.calls
            /\ loaded' = y.loads
            /\ UNCHANGED <<_getters, fs, adapterVars, viewVars, meshVars>>

\* Mutant of Find: the getter is taken out of the registry
\* (_getters.pop(category) for _getters[category]).
Find_pop ==
    \E category \in Categories :
        LET y == find(category)
        IN  /\ call' = [op |-> "find", category |-> Some(category),
                        id |-> None, path |-> None]
            /\ result' = y.res
            /\ invoked' = y.calls
            /\ loaded' = y.loads
            /\ _getters' = [c \in DOMAIN _getters \ {category} |-> _getters[c]]
            /\ UNCHANGED <<fs, adapterVars, viewVars, meshVars>>

Find ==
    \E category \in Categories :
        LET y == find(category)
        IN  /\ call' = [op |-> "find", category |-> Some(category),
                        id |-> None, path |-> None]
            /\ result' = y.res
            /\ invoked' = y.calls
            /\ loaded' = y.loads
            /\ UNCHANGED <<_getters, fs, adapterVars, viewVars, meshVars>>

NextResolver == Open \/ Registered \/ Find

SpecResolver == InitResolver /\ [][NextResolver]_vars


---------------------------------------------------------------------------
(* The adapter as a state machine *)

InitAdapter ==
    /\ _getters = getters_init
    /\ fs = {}
    /\ call = NoCall
    /\ result = Ok([tag |-> "nothing"])
    /\ invoked = << >>
    /\ loaded = << >>
    /\ source \in SourceArrays
    /\ adapter = None
    /\ ctor = NotRun
    /\ copyCall = None
    /\ copied = NotRun
    /\ query = None
    /\ answer = NotRun
    /\ IdleView
    /\ IdleMesh

\* DataArrayBRDFAdapter(source): the caller holds the new adapter when the
\* construction returns, and what it held before when it raises.
Construct ==
    LET made == DataArrayBRDFAdapter(source)
    IN  /\ ctor' = made
        /\ adapter' = IF made.kind = "ok" THEN Some(made.value) ELSE adapter
        /\ UNCHANGED <<source, copyCall, copied, query, answer, resolverVars, viewVars, meshVars>>

\* The boundary completion that lines 108-111 ask for, applied to a validated
\* array: _copy_phi_o_values(360, 0) when 0 is no phi_o coordinate, else
\* _copy_phi_o_values(0, 360) when 360 is none.
CopyPhiOValues ==
    /\ _check_data(source).kind = "ok"
    /\ \E origin \in {0, 360}, target \in {0, 360} :
        /\ \/ ~Contains(source.coords["phi_o"], 0) /\ origin = 360 /\ target = 0
           \/ /\ Contains(source.coords["phi_o"], 0)
              /\ ~Contains(source.coords["phi_o"], 360)
              /\ origin = 0
              /\ target = 360
        /\ copyCall' = Some([origin |-> origin, target |-> target])
        /\ copied' = _copy_phi_o_values(source, origin, target)
    /\ UNCHANGED <<source, adapter, ctor, query, answer, resolverVars, viewVars, meshVars>>

\* Mutant of PlottingData: the query completes the phi_o axis of the
\* adapter's array once more before it answers.
PlottingData_completing ==
    /\ adapter # None
    /\ \E q \in Queries :
        /\ query' = Some(q)
        /\ answer' = plotting_data(adapter[1], q.wi, q.wavelength)
        /\ adapter' = LET again == _copy_phi_o_values(adapter[1].data, 0, 360)
                       IN  IF again.kind = "ok"
                           THEN Some([adapter[1] EXCEPT !.data = again.value])
                           ELSE Some([adapter[1] EXCEPT !.flag = FLAG_SAMPLED_ADAPTER])
    /\ UNCHANGED <<source, ctor, copyCall, copied, resolverVars, viewVars, meshVars>>

\* adapter.plotting_data(wi, wavelength) on the adapter the caller holds: the
\* method reads self.data and assigns nothing.
PlottingData ==
    /\ adapter # None
    /\ \E q \in Queries :
        /\ query' = Some(q)
        /\ answer' = plotting_data(adapter[1], q.wi, q.wavelength)
    /\ UNCHANGED <<source, adapter, ctor, copyCall, copied, resolverVars, viewVars, meshVars>>

NextAdapter == Construct \/ CopyPhiOValues \/ PlottingData

SpecAdapter == InitAdapter /\ [][NextAdapter]_vars

---------------------------------------------------------------------------
(* The resolver and the adapter side by side *)

\* The files on disk: none, or one file without the .nc extension.
LookupFiles == { join(presolver_paths[1], <<"d">>) }

\* One array with all five axes and both boundaries, one with one boundary,
\* and the arrays that lack one axis.
LookupArrays ==
    { DataArray([ix \in DOMAIN a.values |-> 1], a.coords, a.dims) :
        a \in ArraysOver(required_dims, <<0, 360>>)
              \cup ArraysOver(required_dims, <<0>>)
              \cup UNION { ArraysOver(SelectSeq(required_dims, LAMBDA dim : dim # gone), <<0, 360>>) :
                             gone \in Range(required_dims) } }

InitLookup ==
    /\ _getters = getters_init
    /\ fs \in SUBSET LookupFiles
    /\ call = NoCall
    /\ result = Ok([tag |-> "nothing"])
    /\ invoked = << >>
    /\ loaded = << >>
    /\ source \in LookupArrays
    /\ adapter = None
    /\ ctor = NotRun
    /\ copyCall = None
    /\ copied = NotRun
    /\ query = None
    /\ answer = NotRun
    /\ IdleView
    /\ IdleMesh

NextLookup == Open \/ Registered \/ Find \/ Construct \/ CopyPhiOValues \/ PlottingData

SpecLookup == InitLookup /\ [][NextLookup]_vars

---------------------------------------------------------------------------
(* The view as a state machine *)

IdleResolver ==
    /\ _getters = getters_init
    /\ fs = {}
    /\ call = NoCall
    /\ result = Ok([tag |-> "nothing"])
    /\ invoked = << >>
    /\ loaded = << >>

IdleAdapter ==
    /\ source = DataArray(zeros(<< >>), << >>, << >>)
    /\ adapter = None
    /\ ctor = NotRun
    /\ copyCall = None
    /\ copied = NotRun
    /\ query = None
    /\ answer = NotRun

\* A PolarView() the caller has just made.
InitView ==
    /\ IdleResolver
    /\ IdleAdapter
    /\ view = BRDFView
    /\ viewCall = NoViewCall
    /\ viewResult = NotRun
    /\ IdleMesh

\* An assignment to a property of the view: the view changes when the setter
\* returns and stays as it was when the setter raises.
Assign(op, arg, out) ==
    /\ viewCall' = [op |-> op, arg |-> Some(arg)]
    /\ viewResult' = IF out.kind = "ok" THEN Ok(Nothing) ELSE out
    /\ view' = IF out.kind = "ok" THEN out.value ELSE view
    /\ UNCHANGED <<resolverVars, adapterVars, meshVars>>

\* A read of a property of the view.
Read(op, out) ==
    /\ viewCall' = [op |-> op, arg |-> None]
    /\ viewResult' = out
    /\ UNCHANGED <<view, resolverVars, adapterVars, meshVars>>

SetAzmRes(inputs) == \E res \in inputs : Assign("azm_res.setter", res, azm_res_setter(view, res))

SetZenRes(inputs) == \E res \in inputs : Assign("zen_res.setter", res, zen_res_setter(view, res))

SetAzmSteps(inputs) ==
    \E steps \in inputs : Assign("azm_steps.setter", steps, azm_steps_setter(view, steps))

SetZenSteps(inputs) ==
    \E steps \in inputs : Assign("zen_steps.setter", steps, zen_steps_setter(view, steps))

GetAzmRes == Read("azm_res", azm_res(view))

GetZenRes == Read("zen_res", zen_res(view))

GetAzmSteps == Read("azm_steps", azm_steps(view))

GetZenSteps == Read("zen_steps", zen_steps(view))

SetWavelength(inputs) ==
    \E wavelength \in inputs : Assign("wavelength.setter", wavelength, wavelength_setter(view, wavelength))

SetWi(inputs) == \E wi \in inputs : Assign("wi.setter", wi, wi_setter(view, wi))

SetBrdf(inputs) == \E src \in inputs : Assign("brdf.setter", src, brdf_setter(view, src))

\* view.evaluate() on a PolarView.
Evaluate ==
    LET out == PolarView_evaluate(view)
    IN  /\ viewCall' = [op |-> "evaluate", arg |-> None]
        /\ viewResult' = IF out.kind = "ok" THEN Ok(Nothing) ELSE out
        /\ view' = IF out.kind = "ok" THEN out.value ELSE view
        /\ UNCHANGED <<resolverVars, adapterVars, meshVars>>

\* The resolutions and numbers of steps assigned to a view.
Resolutions == { 10 * k : k \in 1..MaxRes } \cup {0}
StepCounts == {1, 3}

NextResolution ==
    \/ SetAzmRes(Resolutions)
    \/ SetZenRes(Resolutions)
    \/ SetAzmSteps(StepCounts)
    \/ SetZenSteps(StepCounts)
    \/ GetAzmRes
    \/ GetZenRes
    \/ GetAzmSteps
    \/ GetZenSteps

SpecResolution == InitView /\ [][NextResolution]_vars

\* The value of the cell at position a on theta_o and b on phi_o of the
\* arrays assigned to brdf: no two cells of a slice hold the same value.
ViewCell(ix) == 10 * ix["theta_o"] + ix["phi_o"]

\* The arrays assigned to brdf: the documented axis order and the one that
\* stores phi_o before theta_o, with both boundaries or with 0 only.
ViewArrays ==
    { DataArray([ix \in DOMAIN a.values |-> ViewCell(ix)], a.coords, a.dims) :
        a \in UNION { ArraysOver(dims, phi_o) :
                        dims \in { required_dims,
                                   <<"theta_i", "phi_i", "phi_o", "theta_o", "wavelength">> },
                        phi_o \in { <<0, 360>>, <<0, 180, 360>>, <<0>> } } }

ViewSources ==
    { [type |-> "DataArray", value |-> a] : a \in ViewArrays }
    \cup { [type |-> "str", value |-> Nothing], [type |-> "int", value |-> Nothing] }

ViewDirections == { <<30, 0>>, <<0, 0>>, <<0, 0, 0>>, <<0, 0, 1>>, <<30>> }
ViewWavelengths == { 550, 650 }
ViewResolutions == { 90 }

NextView ==
    \/ SetBrdf(ViewSources)
    \/ SetWi(ViewDirections)
    \/ SetWavelength(ViewWavelengths)
    \/ SetAzmRes(ViewResolutions)
    \/ SetZenRes(ViewResolutions)
    \/ Evaluate

SpecView == InitView /\ [][NextView]_vars

---------------------------------------------------------------------------
(* The principal plane view as a state machine *)

\* view.evaluate() on a PrincipalPlaneView.
EvaluatePlane ==
    LET done == PrincipalPlaneView_evaluate(view)
    IN  /\ viewCall' = [op |-> "PrincipalPlaneView.evaluate", arg |-> None]
        /\ viewResult' = done.out
        /\ view' = done.self
        /\ UNCHANGED <<resolverVars, adapterVars, meshVars>>

\* The kernel BSDF objects assigned to brdf.
KernelSources == { [type |-> "BSDF", value |-> [tag |-> "diffuse"]] }

NextPlane ==
    \/ SetBrdf(ViewSources \cup KernelSources)
    \/ SetWi(ViewDirections)
    \/ SetWavelength(ViewWavelengths)
    \/ SetZenRes(ViewResolutions)
    \/ EvaluatePlane

\* A PrincipalPlaneView() the caller has just made.
SpecPlane == InitView /\ [][NextPlane]_vars

---------------------------------------------------------------------------
(* Assignments to brdf as a state machine *)

\* Arrays that lack one required axis, every cell 1.
LackingArrays ==
    { a \in UNION { ArraysOver(dims, <<0, 360>>) :
                      dims \in { d \in LackingDims : Len(d) + 1 = Len(required_dims) } } :
        \A ix \in DOMAIN a.values : a.values[ix] = 1 }

\* What is assigned to brdf: kernel BSDF objects, arrays the adapter accepts,
\* arrays it refuses, a str and an int.
BrdfSources ==
    ViewSources \cup KernelSources
    \cup { [type |-> "DataArray", value |-> a] : a \in LackingArrays }

NextBrdf ==
    \/ SetBrdf(BrdfSources)
    \/ SetAzmRes(ViewResolutions)
    \/ SetZenRes(ViewResolutions)
    \/ Evaluate

\* A PolarView() the caller has just made, assigned sources of every kind.
SpecBrdf == InitView /\ [][NextBrdf]_vars

---------------------------------------------------------------------------
(* The buffer mesh as a state machine *)

\* The shapes of the arrays handed to BufferMeshShape.
Shapes == UNION { [1..n -> 0..MaxDim] : n \in 0..MaxNdim }

InitMesh ==
    /\ IdleResolver
    /\ IdleAdapter
    /\ IdleView
    /\ vertices \in Shapes
    /\ faces \in Shapes
    /\ mesh = NotRun

\* BufferMeshShape(vertices=vertices, faces=faces).
ConstructMesh ==
    /\ mesh' = BufferMeshShape(vertices, faces)
    /\ UNCHANGED <<vertices, faces, resolverVars, adapterVars, viewVars>>

NextMesh == ConstructMesh

SpecMesh == InitMesh /\ [][NextMesh]_vars

---------------------------------------------------------------------------
(* Claims about the resolver *)

IsRegistered(category) == category # None /\ category[1] \in DOMAIN _getters

NoneMessage == <<"if 'path' is None, 'category' and 'id' must not be None">>

C2_OpenDelegates ==
    ( /\ call.op = "open"
      /\ call.path = None
      /\ call.id # None
      /\ IsRegistered(call.category) )
    => /\ invoked = << [getter |-> _getters[call.category[1]], op |-> "open",
                        id |-> call.id] >>
       /\ result = getter_open(_getters[call.category[1]], call.id[1])
       /\ call.id[1] \notin DOMAIN getter_PATHS(_getters[call.category[1]])
            => result = Raise("ValueError",
                              <<"unknown identifier", _getters[call.category[1]],
                                call.id[1]>>)

C2_Witness ==
    /\ call.op = "open"
    /\ call.path = None
    /\ call.category = Some("solar_irradiance_spectrum")
    /\ call.id = Some("missing_id")
    /\ result.kind = "raise"
    /\ result.msg[1] = "unknown identifier"

\* C3: when a path is supplied to open, the outcome is that of resolving the
\* path and loading the resolved file, whatever category and id are (absent,
\* present, unregistered), and no getter is invoked.
C3_PathTakesPrecedence ==
    (call.op = "open" /\ call.path # None)
    => /\ invoked = << >>
       /\ result = open(None, None, call.path).res
       /\ \A c \in {None} \cup { Some(x) : x \in Categories },
             i \in {None} \cup { Some(x) : x \in Ids } :
               open(c, i, call.path) = [res |-> result, calls |-> << >>, loads |-> loaded]
       /\ resolve(call.path[1]).kind = "raise" => result = resolve(call.path[1])
       /\ resolve(call.path[1]).kind = "ok"
            => /\ result.kind = "ok" => result.value.file = resolve(call.path[1]).value
               /\ result.kind = "raise"
                    => result.msg = <<"cannot load resource", resolve(call.path[1]).value>>

C3_Witness ==
    /\ call.op = "open"
    /\ call.path # None
    /\ call.category = Some("absorption_cross_section_spectrum")
    /\ call.id = None
    /\ result.kind = "ok"

\* The last path component of p.
BaseName(p) == SubSeq(p, rfind(p, "/") + 2, Len(p))

\* The last path component ends in ".nc" and that dot is not part of a run of
\* leading dots.
HasNcExtension(p) ==
    LET b == BaseName(p)
        n == Len(b)
    IN  /\ n >= 4
        /\ SubSeq(b, n - 2, n) = <<".", "n", "c">>
        /\ \E k \in 1..(n - 3) : b[k] # "."

\* C4: once the path is resolved to a file, open by path returns the data set
\* loaded from that file if and only if the file's extension is exactly .nc;
\* otherwise it raises the ValueError "cannot load resource" naming the
\* resolved path, and nothing is loaded.
C4_ExtensionDispatch ==
    (call.op = "open" /\ call.path # None /\ resolve(call.path[1]).kind = "ok")
    => LET fname == resolve(call.path[1]).value
       IN  /\ result.kind = "ok" <=> HasNcExtension(fname)
           /\ HasNcExtension(fname)
                => /\ result = Ok([tag |-> "dataset", file |-> fname])
                   /\ loaded = <<fname>>
           /\ ~HasNcExtension(fname)
                => /\ result = Raise("ValueError", <<"cannot load resource", fname>>)
                   /\ loaded = << >>

C4_Witness ==
    /\ call.op = "open"
    /\ call.path = Some(<<".", "n", "c">>)
    /\ result = Raise("ValueError", <<"cannot load resource", <<"r", "/", ".", "n", "c">> >>)
    /\ loaded = << >>

\* C5: without a path, when category or id is not supplied, open raises the
\* ValueError about None arguments before it looks the registry up: no getter
\* is invoked and the failure does not depend on the category.
C5_MissingArguments ==
    (call.op = "open" /\ call.path = None /\ (call.category = None \/ call.id = None))
    => /\ result = Raise("ValueError", NoneMessage)
       /\ invoked = << >>
       /\ loaded = << >>

C5_Witness ==
    /\ call.op = "open"
    /\ call.path = None
    /\ call.category = Some("absorption_cross_section_spectrum")
    /\ call.id = None
    /\ result.type = "ValueError"

\* Whether a file backs the relative path under one of the resolver's roots.
BackingFileExists(rel) ==
    \E i \in 1..Len(presolver_paths) : join(presolver_paths[i], rel) \in fs

\* C6: for a registered category c, registered(c) returns the identifier
\* collection of c's getter, and find(c) returns a report whose keys are
\* exactly the identifiers registered(c) returns, each entry a boolean that
\* tells whether the identifier's backing file exists.
C6_RegisteredAndFind ==
    (call.op \in {"registered", "find"} /\ IsRegistered(call.category))
    => LET getter == _getters[call.category[1]]
           ids == registered(call.category[1]).res.value
       IN  /\ invoked = << [getter |-> getter, op |-> call.op, id |-> None] >>
           /\ call.op = "registered" => result = Ok(getter_ids(getter))
           /\ call.op = "find"
                => /\ result.kind = "ok"
                   /\ DOMAIN result.value = { ids[k] : k \in 1..Len(ids) }
                   /\ \A id \in DOMAIN result.value :
                        /\ result.value[id] \in BOOLEAN
                        /\ result.value[id] = BackingFileExists(getter_PATHS(getter)[id])

C6_Witness ==
    /\ call.op = "find"
    /\ call.category = Some("solar_irradiance_spectrum")
    /\ result.kind = "ok"
    /\ result.value["thuillier_2003"]
    /\ ~result.value["blackbody_sun"]

\* C7: after any sequence of open, registered and find calls, successful or
\* failing, the registry holds exactly the categories it held at
\* initialization, each bound to the same getter.
C7_RegistryImmutable == _getters = getters_init

C7_Witness ==
    /\ call.op = "open"
    /\ result.kind = "raise"
    /\ result.msg[1] = "invalid data category"
    /\ _getters = getters_init

---------------------------------------------------------------------------
(* Claims about the gridded adapter *)

MissingAxes(array) == { dim \in Range(required_dims) : dim \notin Range(array.dims) }

\* C8: constructing the adapter from an array that lacks one or more of the
\* five axes raises the ValueError "Required data dimension ... not present"
\* naming an axis the array lacks, also when the axis is phi_o; constructing
\* it from an array with all five axes never raises that error.
C8_MissingAxisRejected ==
    ctor.kind # "none"
    => /\ MissingAxes(source) # {}
            => /\ ctor.kind = "raise"
               /\ ctor.type = "ValueError"
               /\ ctor.msg[1] = "Required data dimension"
               /\ ctor.msg[2] \in MissingAxes(source)
       /\ MissingAxes(source) = {}
            => ~(ctor.kind = "raise" /\ ctor.msg[1] = "Required data dimension")

C8_Witness ==
    /\ MissingAxes(source) = {"phi_o"}
    /\ ctor.kind = "raise"
    /\ ctor.type = "ValueError"
    /\ ctor.msg[2] = "phi_o"

ExactlyOneBoundary(array) ==
    /\ MissingAxes(array) = {}
    /\ Contains(array.coords["phi_o"], 0) # Contains(array.coords["phi_o"], 360)

\* C9: for a five-axis array whose phi_o axis holds exactly one of 0 and 360,
\* construction succeeds, the adapter's array holds both on phi_o, and every
\* cell at the boundary that was missing equals the cell at the boundary that
\* was present with the other four axes held fixed.
C9_BoundaryCompleted ==
    (ctor.kind # "none" /\ ExactlyOneBoundary(source))
    => /\ ctor.kind = "ok"
       /\ LET data == ctor.value.data
              present == IF Contains(source.coords["phi_o"], 0) THEN 0 ELSE 360
              missing == 360 - present
          IN  /\ Contains(data.coords["phi_o"], 0)
              /\ Contains(data.coords["phi_o"], 360)
              /\ \A ix \in DOMAIN data.values :
                    data.coords["phi_o"][ix["phi_o"]] = missing
                    => data.values[ix] =
                         data.values[[ix EXCEPT !["phi_o"] =
                                         IndexOf(data.coords["phi_o"], present)]]

\* C10: boundary completion with target T yields an array whose phi_o
\* sequence is the original one with T appended last, whose other four axes
\* keep their coordinate sequences and their order, and in which every cell of
\* the original array holds its original value.
C10_CompletionFrame ==
    (copyCall # None /\ copied.kind = "ok")
    => LET new == copied.value
           T == copyCall[1].target
       IN  /\ new.coords["phi_o"] = Append(source.coords["phi_o"], T)
           /\ Len(new.coords["phi_o"]) = Len(source.coords["phi_o"]) + 1
           /\ Range(new.dims) = Range(source.dims)
           /\ Len(new.dims) = Len(source.dims)
           /\ SelectSeq(new.dims, NotPhiO) = SelectSeq(source.dims, NotPhiO)
           /\ \A dim \in Range(source.dims) \ {"phi_o"} :
                new.coords[dim] = source.coords[dim]
           /\ \A ix \in DOMAIN source.values : new.values[ix] = source.values[ix]
           /\ DOMAIN new.values =
                DOMAIN source.values
                \cup { [ix EXCEPT !["phi_o"] = Len(source.coords["phi_o"]) + 1] :
                         ix \in DOMAIN source.values }

C10_Witness ==
    /\ copyCall = Some([origin |-> 0, target |-> 360])
    /\ copied.kind = "ok"
    /\ source.dims = required_dims
    /\ source.coords["phi_o"] = <<0, 180>>
    /\ copied.value.coords["phi_o"] = <<0, 180, 360>>
    /\ \E ix \in DOMAIN source.values : source.values[ix] = 2

NeitherBoundary(array) ==
    /\ MissingAxes(array) = {}
    /\ ~Contains(array.coords["phi_o"], 0)
    /\ ~Contains(array.coords["phi_o"], 360)

\* C11: constructing the adapter from a five-axis array whose phi_o axis holds
\* neither 0 nor 360 raises the ValueError "Data contains data for neither 0
\* nor 360!", and the caller gets no adapter.
C11_NeitherBoundaryRejected ==
    (ctor.kind # "none" /\ NeitherBoundary(source))
    => /\ ctor.kind = "raise"
       /\ ctor.type = "ValueError"
       /\ ctor.msg = <<"Data contains data for neither 0 nor 360!">>
       /\ adapter = None

\* The query names a (theta_i, phi_i) pair and a wavelength.
PairQuery == query # None /\ Len(query[1].wi) = 2

\* Each queried value is a coordinate of its own axis of the adapter's array.
AllPresent ==
    LET coords == adapter[1].data.coords
    IN  /\ Contains(coords["theta_i"], query[1].wi[1])
        /\ Contains(coords["phi_i"], query[1].wi[2])
        /\ Contains(coords["wavelength"], query[1].wavelength)

\* C12: plotting_data((theta_i, phi_i), wavelength) raises the ValueError
\* "Selected values don't align with data grid! ..." exactly when one of
\* theta_i, phi_i, wavelength is no coordinate of its own axis (a value that is
\* a coordinate of another axis only does not count), and then returns no
\* value; when all three are coordinates of their axes it returns.
C12_NoExactMatch ==
    PairQuery
    => /\ ~AllPresent <=> answer = Raise("ValueError", NoExactMatch)
       /\ AllPresent <=> answer.kind = "ok"

C12_Witness ==
    /\ PairQuery
    /\ query[1].wi = <<0, 0>>
    /\ query[1].wavelength = 550
    /\ Contains(adapter[1].data.coords["theta_o"], 0)
    /\ Contains(adapter[1].data.coords["phi_i"], 0)
    /\ answer = Raise("ValueError", NoExactMatch)

\* The cell of the adapter's array at the queried (theta_i, phi_i, wavelength)
\* and at positions a on theta_o and b on phi_o.
ValueAt(a, b) ==
    LET data == adapter[1].data
    IN  data.values[[dim \in DOMAIN data.coords |->
                       CASE dim = "theta_o" -> a
                         [] dim = "phi_o" -> b
                         [] dim = "theta_i" -> IndexOf(data.coords[dim], query[1].wi[1])
                         [] dim = "phi_i" -> IndexOf(data.coords[dim], query[1].wi[2])
                         [] dim = "wavelength" -> IndexOf(data.coords[dim], query[1].wavelength)]]

\* The array stores theta_o before phi_o.
ThetaOFirst(array) == IndexOf(array.dims, "theta_o") < IndexOf(array.dims, "phi_o")

\* C13 as stated: a successful plotting_data returns the theta_o coordinates,
\* the phi_o coordinates and a slice of shape (len(theta_o), len(phi_o)) whose
\* entry [a][b] is the cell at theta_o[a], phi_o[b].
C13_SliceByThetaOPhiO ==
    (query # None /\ answer.kind = "ok")
    => LET data == adapter[1].data
           out == answer.value
       IN  /\ out.theta_o = data.coords["theta_o"]
           /\ out.phi_o = data.coords["phi_o"]
           /\ Len(out.data) = Len(data.coords["theta_o"])
           /\ \A a \in DOMAIN out.data : Len(out.data[a]) = Len(data.coords["phi_o"])
           /\ \A a \in DOMAIN data.coords["theta_o"], b \in DOMAIN data.coords["phi_o"] :
                out.data[a][b] = ValueAt(a, b)

\* C13, amended: a successful plotting_data returns the theta_o coordinates,
\* the phi_o coordinates and the slice in the storage order of the array: of
\* shape (len(theta_o), len(phi_o)) with entry [a][b] the cell at theta_o[a],
\* phi_o[b] when the array stores theta_o before phi_o, and of shape
\* (len(phi_o), len(theta_o)) with entry [b][a] that cell when it stores phi_o
\* before theta_o.
C13_SliceInStorageOrder ==
    (query # None /\ answer.kind = "ok")
    => LET data == adapter[1].data
           out == answer.value
           theta_o == data.coords["theta_o"]
           phi_o == data.coords["phi_o"]
       IN  /\ out.theta_o = theta_o
           /\ out.phi_o = phi_o
           /\ IF ThetaOFirst(data)
              THEN /\ Len(out.data) = Len(theta_o)
                   /\ \A a \in DOMAIN out.data : Len(out.data[a]) = Len(phi_o)
                   /\ \A a \in DOMAIN theta_o, b \in DOMAIN phi_o :
                        out.data[a][b] = ValueAt(a, b)
              ELSE /\ Len(out.data) = Len(phi_o)
                   /\ \A b \in DOMAIN out.data : Len(out.data[b]) = Len(theta_o)
                   /\ \A a \in DOMAIN theta_o, b \in DOMAIN phi_o :
                        out.data[b][a] = ValueAt(a, b)

C13_Witness ==
    /\ query # None
    /\ answer.kind = "ok"
    /\ ThetaOFirst(adapter[1].data)
    /\ answer.value.phi_o = <<0, 360>>
    /\ answer.value.data[1][2] # answer.value.data[2][1]
    /\ answer.value.data[1][2] = ValueAt(1, 2)

\* The array with the same coordinates and the same value at every named
\* coordinate tuple, its axes stored in the documented order.
Canonical(array) ==
    DataArray(array.values, array.coords,
              SelectSeq(required_dims, LAMBDA dim : dim \in Range(array.dims)))

SameError(x, y) == x.kind = y.kind /\ x.type = y.type /\ x.msg = y.msg

\* Two construction outcomes are the same: the same error, or adapters with
\* the same flag whose arrays have the same coordinates and the same value at
\* every named coordinate tuple.
SameConstruction(x, y) ==
    /\ SameError(x, y)
    /\ x.kind = "ok" => /\ x.value.flag = y.value.flag
                        /\ x.value.data.coords = y.value.data.coords
                        /\ x.value.data.values = y.value.data.values

\* C14 as stated: an array and the array that differs from it only in the
\* order of its axes give the same construction outcome and the same
\* plotting_data result, the slice indexed by (theta_o, phi_o).
C14_AxisOrderIrrelevant ==
    /\ ctor.kind # "none" => SameConstruction(ctor, DataArrayBRDFAdapter(Canonical(source)))
    /\ query # None
       => LET other == plotting_data(DataArrayBRDFAdapter(Canonical(source)).value,
                                     query[1].wi, query[1].wavelength)
          IN  /\ SameError(answer, other)
              /\ answer.kind = "ok" => answer.value = other.value

\* C14, amended: an array and the array that differs from it only in the
\* order of its axes give the same construction outcome, the same plotting_data
\* failure and the same theta_o and phi_o coordinates; the slice is the same
\* when both store theta_o and phi_o in the same relative order, and is the
\* transpose when they store them in opposite orders.
C14_AxisOrderTransposes ==
    /\ ctor.kind # "none" => SameConstruction(ctor, DataArrayBRDFAdapter(Canonical(source)))
    /\ query # None
       => LET other == plotting_data(DataArrayBRDFAdapter(Canonical(source)).value,
                                     query[1].wi, query[1].wavelength)
          IN  /\ SameError(answer, other)
              /\ answer.kind = "ok"
                 => /\ answer.value.theta_o = other.value.theta_o
                    /\ answer.value.phi_o = other.value.phi_o
                    /\ answer.value.data =
                         IF ThetaOFirst(source) THEN other.value.data
                                                ELSE transpose(other.value.data)

C14_Witness ==
    /\ source.dims = <<"theta_i", "phi_i", "phi_o", "theta_o", "wavelength">>
    /\ ctor.kind = "ok"
    /\ query # None
    /\ answer.kind = "ok"
    /\ answer.value.data # transpose(answer.value.data)

\* C16: a plotting_data call, returning or raising, leaves the adapter's array
\* and flag as they were and completes no boundary, and a call that repeats the
\* query before it gets the answer that query got.
C16_QueriesLeaveAdapter ==
    [][PlottingData => /\ adapter' = adapter
                       /\ source' = source
                       /\ copyCall' = copyCall
                       /\ query' = query => answer' = answer]_vars

C16_Witness ==
    /\ query # None
    /\ answer.kind = "raise"
    /\ ctor.kind = "ok"
    /\ adapter = Some(ctor.value)
    /\ adapter[1].flag = FLAG_GRIDDED_ADAPTER
    /\ adapter[1].data = source

---------------------------------------------------------------------------
(* Claims about the failures of the resolver and the adapter *)

\* The queried values that are no coordinate of their own axis.
NotFound ==
    LET coords == adapter[1].data.coords
    IN  { v \in {query[1].wi[1]} : ~Contains(coords["theta_i"], v) }
        \cup { v \in {query[1].wi[2]} : ~Contains(coords["phi_i"], v) }
        \cup { v \in {query[1].wavelength} : ~Contains(coords["wavelength"], v) }

\* The errors of the resolver and of the construction carry their key: the
\* unknown category, the resolved path of the file that cannot be loaded, an
\* axis the array lacks.
KeyedFailures ==
    /\ (result.kind = "raise" /\ result.msg[1] = "invalid data category")
       => result.msg[2] = call.category[1]
    /\ (result.kind = "raise" /\ result.msg[1] = "cannot load resource")
       => /\ call.path # None
          /\ resolve(call.path[1]).kind = "ok"
          /\ result.msg[2] = resolve(call.path[1]).value
    /\ (ctor.kind = "raise" /\ ctor.msg[1] = "Required data dimension")
       => ctor.msg[2] \in MissingAxes(source)

\* A call that raises returns nothing.
NoPartialResult ==
    /\ result.kind = "raise" => result.value = Nothing
    /\ ctor.kind = "raise" => ctor.value = Nothing
    /\ answer.kind = "raise" => answer.value = Nothing

\* C15 as stated: every lookup failure carries the offending key, the
\* plotting_data failure a queried value that was not found, and no failing
\* call returns a result.
C15_FailuresCarryKey ==
    /\ KeyedFailures
    /\ (PairQuery /\ answer.kind = "raise")
       => /\ Len(answer.msg) >= 2
          /\ answer.msg[2] \in NotFound
    /\ NoPartialResult

\* C15, amended: an unknown category, an unsupported resource and a missing
\* axis are reported with the category, the resolved path and the axis name;
\* the plotting_data failure is the fixed message "Selected values don't align
\* with data grid! ..." and names no value; no failing call returns a result.
C15_FailuresCarryKeyButQuery ==
    /\ KeyedFailures
    /\ (PairQuery /\ answer.kind = "raise")
       => /\ NotFound # {}
          /\ answer.msg = NoExactMatch
    /\ NoPartialResult

C15_Witness ==
    /\ result.kind = "raise"
    /\ result.msg[1] = "cannot load resource"
    /\ result.msg[2] = join(presolver_paths[1], <<"d">>)
    /\ PairQuery
    /\ answer.kind = "raise"
    /\ NotFound = {30}

---------------------------------------------------------------------------
(* Claims about the views *)

\* The last operation on the view was an evaluate that returned, with a
\* gridded adapter.
Evaluated ==
    /\ viewCall.op = "evaluate"
    /\ viewResult.kind = "ok"
    /\ view._brdf # None
    /\ view._brdf[1].flag = FLAG_GRIDDED_ADAPTER

\* The cell of the view's array at the view's wi and wavelength and at
\* positions i on theta_o and j on phi_o.
GridValue(i, j) ==
    LET data == view._brdf[1].data
    IN  data.values[[dim \in DOMAIN data.coords |->
                       CASE dim = "theta_o" -> i
                         [] dim = "phi_o" -> j
                         [] dim = "theta_i" -> IndexOf(data.coords[dim], view._wi[1])
                         [] dim = "phi_i" -> IndexOf(data.coords[dim], view._wi[2])
                         [] dim = "wavelength" -> IndexOf(data.coords[dim], view._wavelength)]]

\* angles are the degrees in radians: angle / pi = degree / 180.
InRadians(angles, degrees) ==
    /\ Len(angles) = Len(degrees)
    /\ \A k \in DOMAIN angles : angles[k][1] * 180 = degrees[k] * angles[k][2]

\* C18 as stated: after PolarView.evaluate with a gridded adapter, zen is the
\* adapter's theta_o coordinates and azm its phi_o coordinates in radians, and
\* the values have shape (len(azm), len(zen)), entry [j][i] being the cell at
\* theta_o[i], phi_o[j].
C18_EvaluateOverrides ==
    Evaluated
    => LET data == view._brdf[1].data
       IN  /\ InRadians(view._zen, data.coords["theta_o"])
           /\ InRadians(view._azm, data.coords["phi_o"])
           /\ view._z # None
           /\ Len(view._z[1]) = Len(view._azm)
           /\ \A j \in DOMAIN view._z[1] : Len(view._z[1][j]) = Len(view._zen)
           /\ \A i \in DOMAIN view._zen, j \in DOMAIN view._azm :
                view._z[1][j][i] = GridValue(i, j)

\* C18, amended: after PolarView.evaluate with a gridded adapter, zen is the
\* adapter's theta_o coordinates and azm its phi_o coordinates in radians; the
\* values have shape (len(azm), len(zen)) with entry [j][i] the cell at
\* theta_o[i], phi_o[j] when the adapter's array stores theta_o before phi_o,
\* and shape (len(zen), len(azm)) with entry [i][j] that cell when it stores
\* phi_o before theta_o.
C18_EvaluateOverridesInStorageOrder ==
    Evaluated
    => LET data == view._brdf[1].data
       IN  /\ InRadians(view._zen, data.coords["theta_o"])
           /\ InRadians(view._azm, data.coords["phi_o"])
           /\ view._z # None
           /\ IF ThetaOFirst(data)
              THEN /\ Len(view._z[1]) = Len(view._azm)
                   /\ \A j \in DOMAIN view._z[1] : Len(view._z[1][j]) = Len(view._zen)
                   /\ \A i \in DOMAIN view._zen, j \in DOMAIN view._azm :
                        view._z[1][j][i] = GridValue(i, j)
              ELSE /\ Len(view._z[1]) = Len(view._zen)
                   /\ \A i \in DOMAIN view._z[1] : Len(view._z[1][i]) = Len(view._azm)
                   /\ \A i \in DOMAIN view._zen, j \in DOMAIN view._azm :
                        view._z[1][i][j] = GridValue(i, j)

C18_Witness ==
    /\ Evaluated
    /\ ThetaOFirst(view._brdf[1].data)
    /\ view._brdf[1].data.coords["phi_o"] = <<0, 180, 360>>
    /\ view._azm = << <<0, 1>>, <<1, 1>>, <<2, 1>> >>
    /\ view._zen = << <<0, 1>>, <<1, 4>> >>
    /\ Len(view._z[1]) = 3
    /\ view._z[1][3][2] = 23

\* C19: reading azm_res right after azm_res was set to r > 0 gives r when r
\* divides 360 and a resolution not above r otherwise, and reading zen_res
\* right after zen_res was set to r > 0 gives r when r divides 90 and a
\* resolution not above r otherwise.
C19_ResolutionRoundTrip ==
    [][/\ (viewCall.op = "azm_res.setter" /\ viewResult.kind = "ok" /\ viewCall'.op = "azm_res")
          => /\ viewResult'.kind = "ok"
             /\ LET r == viewCall.arg[1]
                    read == viewResult'.value
                IN  IF 360 % r = 0 THEN read = <<r, 1>> ELSE read[1] <= r * read[2]
       /\ (viewCall.op = "zen_res.setter" /\ viewResult.kind = "ok" /\ viewCall'.op = "zen_res")
          => /\ viewResult'.kind = "ok"
             /\ LET r == viewCall.arg[1]
                    read == viewResult'.value
                IN  IF 90 % r = 0 THEN read = <<r, 1>> ELSE read[1] <= r * read[2]]_vars

---------------------------------------------------------------------------
(* Claims about the buffer mesh *)

\* The shape (n, 3) with n >= 1.
IsN3(shape) == Len(shape) = 2 /\ shape[1] >= 1 /\ shape[2] = 3

\* C20: BufferMeshShape is constructed exactly when vertices and faces both
\* have a shape (n, 3) with n >= 1; otherwise the construction raises a
\* ValueError that names an attribute whose array has no such shape, and gives
\* the shape it got.
C20_MeshShapes ==
    mesh.kind # "none"
    => /\ (IsN3(vertices) /\ IsN3(faces)) <=> mesh.kind = "ok"
       /\ mesh.kind = "raise"
          => /\ mesh.type = "ValueError"
             /\ \/ mesh.msg[2] = "vertices" /\ ~IsN3(vertices) /\ mesh.msg[4] = vertices
                \/ mesh.msg[2] = "faces" /\ ~IsN3(faces) /\ mesh.msg[4] = faces

C20_Witness ==
    /\ vertices = <<0, 3>>
    /\ faces = <<2, 3>>
    /\ mesh.kind = "raise"
    /\ mesh.type = "ValueError"
    /\ mesh.msg[2] = "vertices"

---------------------------------------------------------------------------
(* Claims about construction from a complete array *)

BothBoundaries(array) ==
    /\ MissingAxes(array) = {}
    /\ Contains(array.coords["phi_o"], 0)
    /\ Contains(array.coords["phi_o"], 360)

\* C22: constructing the adapter from a five-axis array whose phi_o axis holds
\* both 0 and 360 returns an adapter whose array has the axes, the coordinate
\* sequences and the cell values of the supplied array, and whose flag is the
\* gridded flag; no boundary is completed.
C22_CompleteArrayKept ==
    (ctor.kind # "none" /\ BothBoundaries(source))
    => /\ ctor.kind = "ok"
       /\ ctor.value.flag = FLAG_GRIDDED_ADAPTER
       /\ ctor.value.data.dims = source.dims
       /\ ctor.value.data.coords = source.coords
       /\ ctor.value.data.values = source.values
       /\ adapter = Some(ctor.value)

C22_Witness ==
    /\ BothBoundaries(source)
    /\ source.coords["phi_o"] = <<360, 0>>
    /\ source.dims = <<"phi_i", "theta_i", "theta_o", "phi_o", "wavelength">>
    /\ ctor.kind = "ok"
    /\ adapter # None
    /\ adapter[1].data.coords["phi_o"] = <<360, 0>>
    /\ \E ix \in DOMAIN source.values : adapter[1].data.values[ix] = 2

---------------------------------------------------------------------------
(* Claims about the principal plane view *)

PlaneEvaluated ==
    /\ viewCall.op = "PrincipalPlaneView.evaluate"
    /\ viewResult.kind = "ok"
    /\ view._brdf # None

\* The value of the view's adapter at the i-th zenith of the view and the
\* azimuth phi, in degrees: the cell of the array for a gridded adapter, the
\* kernel's answer for a sampled one.
PlaneValue(i, phi) ==
    LET brdf == view._brdf[1]
    IN  IF brdf.flag = FLAG_GRIDDED_ADAPTER
        THEN LET coords == brdf.data.coords
                 ix == [dim \in DOMAIN coords |->
                          CASE dim = "theta_i" -> IndexOf(coords["theta_i"], view._wi[1])
                            [] dim = "phi_i" -> IndexOf(coords["phi_i"], view._wi[2])
                            [] dim = "wavelength" -> IndexOf(coords["wavelength"], view._wavelength)
                            [] dim = "theta_o" -> i
                            [] dim = "phi_o" -> IndexOf(coords["phi_o"], phi)]
             IN  brdf.data.values[ix]
        ELSE adapter_evaluate(brdf, <<view._zen[i], Ratio(phi, 180)>>, view._wi, view._wavelength)

\* C21: after PrincipalPlaneView.evaluate returns, for a sampled adapter and
\* for a gridded adapter whose phi_o holds 180, _z has 2n entries for n the
\* length of zen; entry n+i (counted from 0) is the value at zen[i] and phi 0,
\* entry n-1-i is the value at zen[i] and phi 180.
C21_PrincipalPlaneLayout ==
    PlaneEvaluated
    => LET n == Len(view._zen)
           z == view._z[1]
       IN  /\ Len(z) = 2 * n
           /\ \A i \in 1..n : /\ z[n + i] = PlaneValue(i, 0)
                              /\ z[n + 1 - i] = PlaneValue(i, 180)

---------------------------------------------------------------------------
(* Claims about the adapter a view stores *)

WrapsKernelBSDF(brdf) == "bsdf" \in DOMAIN brdf /\ brdf.bsdf.type = "BSDF"

WrapsGriddedArray(brdf) == "data" \in DOMAIN brdf /\ MissingAxes(brdf.data) = {}

FlagMatchesWrapped ==
    view._brdf # None
    => LET brdf == view._brdf[1]
       IN  /\ brdf.flag = FLAG_SAMPLED_ADAPTER <=> WrapsKernelBSDF(brdf)
           /\ brdf.flag = FLAG_GRIDDED_ADAPTER <=> WrapsGriddedArray(brdf)

UnsupportedAdapter ==
    /\ viewCall.op = "evaluate"
    /\ viewResult.kind = "raise"
    /\ viewResult.type = "TypeError"
    /\ viewResult.msg = <<"Unsupported adapter">>

FailedAssignmentKeepsAdapter ==
    (viewCall'.op = "brdf.setter" /\ viewResult'.kind = "raise")
    => view'._brdf = view._brdf

---------------------------------------------------------------------------
(* Claims about the incoming direction of a view *)

\* The (theta, phi) pair, in degrees, of a value of two or three entries.
DirectionPair(wi) == IF Len(wi) = 2 THEN wi ELSE direction_to_angles_deg(wi)

\* C24: every assignment to a view's wi either returns and leaves as stored
\* direction the (theta, phi) pair of the assigned value, which has two or
\* three entries, or raises and leaves the stored direction as it was; no
\* assignment of a value of any length returns without storing its pair.
C24_WiStoredOrRaised ==
    [][viewCall'.op = "wi.setter"
       => LET wi == viewCall'.arg[1]
          IN  \/ /\ viewResult'.kind = "ok"
                 /\ Len(wi) \in {2, 3}
                 /\ view'._wi = DirectionPair(wi)
              \/ /\ viewResult'.kind = "raise"
                 /\ view'._wi = view._wi]_vars

=============================================================================
